---- MODULE Spec2Model ----
(***************************************************************************)
(* Asynchronous bulk product creation and progress polling of the          *)
(* food-delivery backend:                                                  *)
(*   food_order_api/views.py  ProductBulkCreateView.create (submission)    *)
(*   food_order_api/tasks.py  bulk_create_task (the Celery worker task)    *)
(*   food_order_api/views.py  CheckProgressView.get (polling)              *)
(* The Celery result backend is the progress store: one meta record per    *)
(* task id, replaced by every update_state / store_result.  The database   *)
(* is the set of committed product rows; rows saved inside                 *)
(* transaction.atomic() stay in the task's transaction until it exits.     *)
(***************************************************************************)
EXTENDS Integers, Sequences, FiniteSets, TLC

\* Bounds of the model.
MaxJobs == 1
MaxItems == 3
MaxSegments == 3

\* Task ids: 1..MaxJobs can be issued by delay(); MaxJobs + 1 never is.
TaskIds == 1..(MaxJobs + 1)

\* What the Item Validator/Persister answers for one item when the worker
\* reaches it: is_valid() and save() succeed; is_valid() is False; is_valid()
\* is True and save() raises.
ItemKinds == {"valid", "invalid", "fault"}

VARIABLES
    issued,      \* number of task ids handed out by delay()
    items,       \* len(items_to_create) of each task
    answers,     \* the validator's answers to the items processed so far
    pc,          \* position of each task
    index,       \* completed iterations of the task's for loop
    rollback,    \* transaction.set_rollback(True) was called
    retval,      \* value returned by bulk_create_task
    txn,         \* rows saved in the task's open transaction
    db,          \* committed product rows, <<task id, item index>>
    store,       \* result backend: current meta of each task id
    writes,      \* every meta written for each task id, in order
    pollId,      \* task id of the polling client's last GET, 0 before any
    lastPoll,    \* response of CheckProgressView.get to that GET, once given
    prevPoll,    \* response to the GET before it, when for the same id
    polledAt,    \* where the task stood when that GET began
    prevAt,      \* where it stood when the GET of prevPoll began
    view,        \* the GET that CheckProgressView.get is serving, if any
    lastSubmit,  \* last call of ProductBulkCreateView.create
    route        \* last request resolved against urlpatterns

vars == <<issued, items, answers, pc, index, rollback, retval, txn, db, store, writes,
          pollId, lastPoll, prevPoll, polledAt, prevAt, view, lastSubmit, route>>

NoValue == [result |-> <<"none">>]
NoCall == [kind |-> "none"]
Idle == [at |-> "idle"]

\* AsyncResult of an id the backend holds no meta for.
PendingMeta == [state |-> "PENDING"]

\* celery_progress ProgressRecorder.set_progress: percent is
\* round(Decimal(current) / Decimal(total) * 100, 2), kept here in hundredths
\* of a percent; Decimal rounds half to even.
PercentFloor(current, total) ==
    IF total > 0 THEN ((current * 100) \div total) * 100 ELSE 0

PercentReversed(current, total) ==
    IF total > 0 THEN ((total - current) * 10000) \div total ELSE 0

Percent(current, total) ==
    IF total > 0
    THEN LET n == current * 10000
             q == n \div total
             r == n % total
         IN IF 2 * r < total THEN q
            ELSE IF 2 * r > total THEN q + 1
            ELSE IF q % 2 = 0 THEN q ELSE q + 1
    ELSE 0

\* description=f"Creating item {index + 1}/{total_items}"
Description(i, total) == <<"Creating item", i, total>>

set_progress_stale(current, total) ==
    [state |-> "PROGRESS", current |-> current - 1, total |-> total,
     percent |-> Percent(current, total),
     description |-> Description(current, total)]

\* progress_recorder.set_progress(index + 1, total_items, description=...):
\* the meta handed to update_state.
set_progress(current, total) ==
    [state |-> "PROGRESS", current |-> current, total |-> total,
     percent |-> Percent(current, total),
     description |-> Description(current, total)]

\* f"Validation error for item {index + 1}: {serializer.errors}"
ValidationError(i) ==
    [text |-> "Validation error for item", item |-> i, detail |-> "serializer.errors"]

\* str(e) of an exception raised by serializer.save(): it names no item.
SaveError == [text |-> "save exception", item |-> 0, detail |-> "str(e)"]

\* {"result": "Bulk create completed"}
Completed == [result |-> <<"Bulk create completed">>]

\* {"result": f"Bulk update failed: {str(e)}"}
Failed(e) == [result |-> <<"Bulk update failed", e>>]

\* Celery stores the value a task returns under state SUCCESS (an exception
\* that escapes the task would be stored under FAILURE); bulk_create_task
\* returns in both of its branches.
mark_as_done(value) == [state |-> "SUCCESS", result |-> value]

\* Leaving `with transaction.atomic()`: rollback when set_rollback(True) was
\* called, commit otherwise.
AtomicExitCommitAlways(committed, rows, needs_rollback) == committed \cup rows

AtomicExitRollbackAlways(committed, rows, needs_rollback) == committed

AtomicExit(committed, rows, needs_rollback) ==
    IF needs_rollback THEN committed ELSE committed \cup rows

\* CheckProgressView.get: the response for the meta AsyncResult(task_id) reads.
getPendingAsProgress(meta) ==
    IF meta.state \in {"PROGRESS", "PENDING"}
    THEN [kind |-> "progress", percent |-> 0, description |-> <<>>,
          completed |-> FALSE, status |-> 200]
    ELSE [kind |-> "success", percent |-> 10000, description |-> "Task completed",
          completed |-> TRUE, status |-> 200]

get(meta) ==
    IF meta.state = "PROGRESS"
    THEN [kind |-> "progress", percent |-> meta.percent,
          description |-> meta.description, completed |-> FALSE, status |-> 200]
    ELSE IF meta.state = "SUCCESS"
    THEN [kind |-> "success", percent |-> 10000, description |-> "Task completed",
          completed |-> TRUE, status |-> 200]
    ELSE IF meta.state = "FAILURE"
    THEN [kind |-> "failure", error |-> meta.result, completed |-> TRUE,
          status |-> 500]
    ELSE [kind |-> "unknown", error |-> "Unknown task state", completed |-> TRUE,
          status |-> 500]

Init ==
    /\ issued = 0
    /\ items = [j \in TaskIds |-> 0]
    /\ answers = [j \in TaskIds |-> <<>>]
    /\ pc = [j \in TaskIds |-> "unissued"]
    /\ index = [j \in TaskIds |-> 0]
    /\ rollback = [j \in TaskIds |-> FALSE]
    /\ retval = [j \in TaskIds |-> NoValue]
    /\ txn = [j \in TaskIds |-> {}]
    /\ db = {}
    /\ store = [j \in TaskIds |-> PendingMeta]
    /\ writes = [j \in TaskIds |-> <<>>]
    /\ pollId = 0
    /\ lastPoll = NoCall
    /\ prevPoll = NoCall
    /\ polledAt = "never"
    /\ prevAt = "never"
    /\ view = Idle
    /\ lastSubmit = NoCall
    /\ route = NoCall

SubmitEager(data, authenticated) ==
    /\ issued < MaxJobs
    /\ IF authenticated
       THEN /\ issued' = issued + 1
            /\ items' = [items EXCEPT ![issued + 1] = data]
            /\ pc' = [pc EXCEPT ![issued + 1] = "loop"]
            /\ lastSubmit' = [kind |-> "task", data |-> data,
                              task_id |-> issued + 1, status |-> 200]
       ELSE /\ lastSubmit' = [kind |-> "denied", status |-> 401]
            /\ UNCHANGED <<issued, items, pc>>
    /\ UNCHANGED <<answers, index, rollback, retval, txn, db, store, writes,
                   pollId, lastPoll, prevPoll, polledAt, prevAt, view, route>>

\* ProductBulkCreateView.create behind permissions.IsAuthenticated, for a
\* request.data of `data` item records:
\* bulk_create_task.delay(request.data), then Response({"task_id": task.id}).
Submit(data, authenticated) ==
    /\ issued < MaxJobs
    /\ IF authenticated
       THEN /\ issued' = issued + 1
            /\ items' = [items EXCEPT ![issued + 1] = data]
            /\ pc' = [pc EXCEPT ![issued + 1] = "queued"]
            /\ lastSubmit' = [kind |-> "task", data |-> data,
                              task_id |-> issued + 1, status |-> 200]
       ELSE /\ lastSubmit' = [kind |-> "denied", status |-> 401]
            /\ UNCHANGED <<issued, items, pc>>
    /\ UNCHANGED <<answers, index, rollback, retval, txn, db, store, writes,
                   pollId, lastPoll, prevPoll, polledAt, prevAt, view, route>>

\* A worker takes the task off the queue and enters transaction.atomic().
Start(j) ==
    /\ pc[j] = "queued"
    /\ pc' = [pc EXCEPT ![j] = "loop"]
    /\ UNCHANGED <<issued, items, answers, index, rollback, retval, txn, db, store, writes,
                   pollId, lastPoll, prevPoll, polledAt, prevAt, view, lastSubmit, route>>

IterateNoAbort(j, answer) ==
    /\ pc[j] = "loop"
    /\ index[j] < items[j]
    /\ answers' = [answers EXCEPT ![j] = Append(@, answer)]
    /\ LET i == index[j] + 1
           total_items == items[j]
       IN IF answer = "valid"
          THEN /\ txn' = [txn EXCEPT ![j] = @ \cup {<<j, i>>}]
               /\ store' = [store EXCEPT ![j] = set_progress(i, total_items)]
               /\ writes' = [writes EXCEPT ![j] = Append(@, set_progress(i, total_items))]
               /\ index' = [index EXCEPT ![j] = i]
               /\ UNCHANGED <<pc, rollback, retval>>
          ELSE /\ rollback' = [rollback EXCEPT ![j] = TRUE]
               /\ retval' = [retval EXCEPT ![j] =
                                Failed(IF answer = "invalid"
                                       THEN ValidationError(i) ELSE SaveError)]
               /\ index' = [index EXCEPT ![j] = i]
               /\ UNCHANGED <<pc, txn, store, writes>>
    /\ UNCHANGED <<issued, items, db, pollId, lastPoll, prevPoll, polledAt, prevAt, view,
                   lastSubmit, route>>

\* One iteration of `for index, item_data in enumerate(items_to_create)`,
\* the serializer answering `answer` for the item.
Iterate(j, answer) ==
    /\ pc[j] = "loop"
    /\ index[j] < items[j]
    /\ answers' = [answers EXCEPT ![j] = Append(@, answer)]
    /\ LET i == index[j] + 1
           total_items == items[j]
       IN IF answer = "valid"
          THEN /\ txn' = [txn EXCEPT ![j] = @ \cup {<<j, i>>}]
               /\ store' = [store EXCEPT ![j] = set_progress(i, total_items)]
               /\ writes' = [writes EXCEPT ![j] = Append(@, set_progress(i, total_items))]
               /\ index' = [index EXCEPT ![j] = i]
               /\ UNCHANGED <<pc, rollback, retval>>
          ELSE /\ rollback' = [rollback EXCEPT ![j] = TRUE]
               /\ retval' = [retval EXCEPT ![j] =
                                Failed(IF answer = "invalid"
                                       THEN ValidationError(i) ELSE SaveError)]
               /\ pc' = [pc EXCEPT ![j] = "exit"]
               /\ UNCHANGED <<txn, store, writes, index>>
    /\ UNCHANGED <<issued, items, db, pollId, lastPoll, prevPoll, polledAt, prevAt, view,
                   lastSubmit, route>>

ReturnOffByOne(j) ==
    /\ pc[j] = "loop"
    /\ index[j] > items[j]
    /\ retval' = [retval EXCEPT ![j] = Completed]
    /\ pc' = [pc EXCEPT ![j] = "exit"]
    /\ UNCHANGED <<issued, items, answers, index, rollback, txn, db, store, writes,
                   pollId, lastPoll, prevPoll, polledAt, prevAt, view, lastSubmit, route>>

\* The loop is exhausted: return {"result": "Bulk create completed"}.
Return(j) ==
    /\ pc[j] = "loop"
    /\ index[j] = items[j]
    /\ retval' = [retval EXCEPT ![j] = Completed]
    /\ pc' = [pc EXCEPT ![j] = "exit"]
    /\ UNCHANGED <<issued, items, answers, index, rollback, txn, db, store, writes,
                   pollId, lastPoll, prevPoll, polledAt, prevAt, view, lastSubmit, route>>

\* The return leaves `with transaction.atomic()`.
ExitAtomic(j) ==
    /\ pc[j] = "exit"
    /\ db' = AtomicExit(db, txn[j], rollback[j])
    /\ txn' = [txn EXCEPT ![j] = {}]
    /\ pc' = [pc EXCEPT ![j] = "store"]
    /\ UNCHANGED <<issued, items, answers, index, rollback, retval, store, writes,
                   pollId, lastPoll, prevPoll, polledAt, prevAt, view, lastSubmit, route>>

StoreResultRedeliver(j) ==
    /\ pc[j] = "store"
    /\ store' = [store EXCEPT ![j] = mark_as_done(retval[j])]
    /\ writes' = [writes EXCEPT ![j] = Append(@, mark_as_done(retval[j]))]
    /\ pc' = [pc EXCEPT ![j] = IF Len(writes[j]) < MaxItems THEN "queued" ELSE "done"]
    /\ index' = [index EXCEPT ![j] = 0]
    /\ answers' = [answers EXCEPT ![j] = <<>>]
    /\ rollback' = [rollback EXCEPT ![j] = FALSE]
    /\ UNCHANGED <<issued, items, retval, txn, db, pollId, lastPoll, prevPoll,
                   polledAt, prevAt, view, lastSubmit, route>>

\* Celery records the returned value for the task id; the task is acknowledged.
StoreResult(j) ==
    /\ pc[j] = "store"
    /\ store' = [store EXCEPT ![j] = mark_as_done(retval[j])]
    /\ writes' = [writes EXCEPT ![j] = Append(@, mark_as_done(retval[j]))]
    /\ pc' = [pc EXCEPT ![j] = "done"]
    /\ UNCHANGED <<issued, items, answers, index, rollback, retval, txn, db,
                   pollId, lastPoll, prevPoll, polledAt, prevAt, view, lastSubmit, route>>

\* What the history keeps of the moment a GET begins: the task id is not
\* issued yet, is queued or running, or has reached its terminal state.
Moment(id) ==
    IF pc[id] = "unissued" THEN "unissued"
    ELSE IF pc[id] = "done" THEN "done" ELSE "before"

\* An unhandled KeyError / TypeError in the view: Django answers HTTP 500.
ServerError == [kind |-> "fault", error |-> "KeyError", status |-> 500]

\* The client sends a GET for `id`: its last response becomes the previous
\* one.  The client's history restarts when it turns to another id.
Request(id) ==
    /\ pollId' = id
    /\ prevPoll' = IF pollId = id THEN lastPoll ELSE NoCall
    /\ polledAt' = Moment(id)
    /\ prevAt' = IF pollId = id THEN polledAt ELSE "never"

\* The view returns `response` for the GET it is serving.
Respond(response) ==
    /\ lastPoll' = response
    /\ view' = Idle

\* CheckProgressView.get(request, task_id).  Every use of result.state and
\* result.info reads the result backend again, except that AsyncResult keeps
\* a meta in a ready state (SUCCESS, FAILURE) once it has read one.
\* `result.state == "PROGRESS"`: the first read.
PollBegin(id) ==
    /\ view = Idle
    /\ LET meta == store[id]
       IN IF meta.state \in {"SUCCESS", "FAILURE"}
          THEN Request(id) /\ Respond(get(meta))
          ELSE /\ Request(id)
               /\ lastPoll' = NoCall
               /\ view' = [at |-> IF meta.state = "PROGRESS" THEN "percent"
                                  ELSE "isSuccess",
                           id |-> id, percent |-> 0]
    /\ UNCHANGED <<issued, items, answers, pc, index, rollback, retval, txn, db, store,
                   writes, lastSubmit, route>>

\* result.info["percent"]: info is the returned dict once the task is ready.
PollPercent ==
    /\ view.at = "percent"
    /\ LET meta == store[view.id]
       IN IF meta.state = "PROGRESS"
          THEN /\ view' = [view EXCEPT !.at = "description", !.percent = meta.percent]
               /\ UNCHANGED lastPoll
          ELSE Respond(ServerError)
    /\ UNCHANGED <<pollId, prevPoll, polledAt, prevAt>>
    /\ UNCHANGED <<issued, items, answers, pc, index, rollback, retval, txn, db, store,
                   writes, lastSubmit, route>>

\* result.info["description"], then Response(progress_info).
PollDescription ==
    /\ view.at = "description"
    /\ LET meta == store[view.id]
       IN IF meta.state = "PROGRESS"
          THEN Respond(get([state |-> "PROGRESS", percent |-> view.percent,
                            description |-> meta.description]))
          ELSE Respond(ServerError)
    /\ UNCHANGED <<pollId, prevPoll, polledAt, prevAt>>
    /\ UNCHANGED <<issued, items, answers, pc, index, rollback, retval, txn, db, store,
                   writes, lastSubmit, route>>

\* `elif result.state == "SUCCESS"`.
PollIsSuccess ==
    /\ view.at = "isSuccess"
    /\ LET meta == store[view.id]
       IN IF meta.state \in {"SUCCESS", "FAILURE"}
          THEN Respond(get(meta))
          ELSE /\ view' = [view EXCEPT !.at = "isFailure"]
               /\ UNCHANGED lastPoll
    /\ UNCHANGED <<pollId, prevPoll, polledAt, prevAt>>
    /\ UNCHANGED <<issued, items, answers, pc, index, rollback, retval, txn, db, store,
                   writes, lastSubmit, route>>

\* `elif result.state == "FAILURE"`, else the unknown branch.
PollIsFailure ==
    /\ view.at = "isFailure"
    /\ LET meta == store[view.id]
       IN IF meta.state = "FAILURE"
          THEN Respond(get(meta))
          ELSE Respond(get(PendingMeta))
    /\ UNCHANGED <<pollId, prevPoll, polledAt, prevAt>>
    /\ UNCHANGED <<issued, items, answers, pc, index, rollback, retval, txn, db, store,
                   writes, lastSubmit, route>>

Next ==
    \/ \E data \in 0..MaxItems, authenticated \in BOOLEAN : Submit(data, authenticated)
    \/ \E j \in TaskIds : Start(j)
    \/ \E j \in TaskIds, answer \in ItemKinds : Iterate(j, answer)
    \/ \E j \in TaskIds : Return(j)
    \/ \E j \in TaskIds : ExitAtomic(j)
    \/ \E j \in TaskIds : StoreResult(j)
    \/ \E id \in TaskIds : PollBegin(id)
    \/ PollPercent
    \/ PollDescription
    \/ PollIsSuccess
    \/ PollIsFailure

Spec == Init /\ [][Next]_vars

\* The steps of the worker that runs task j.
Worker(j) ==
    \/ Start(j)
    \/ \E answer \in ItemKinds : Iterate(j, answer)
    \/ Return(j)
    \/ ExitAtomic(j)
    \/ StoreResult(j)

\* A worker that holds a task keeps running it: no step of a task stays
\* enabled forever without being taken.
SpecFair == Spec /\ \A j \in TaskIds : WF_vars(Worker(j))

\* str(e) of an exception raised by progress_recorder.set_progress.
ProgressError == [text |-> "set_progress exception", item |-> 0, detail |-> "str(e)"]

\* An iteration whose item is valid and saved and whose set_progress call
\* raises (the result backend refuses the write): the except branch runs.
IterateProgressFault(j) ==
    /\ pc[j] = "loop"
    /\ index[j] < items[j]
    /\ answers' = [answers EXCEPT ![j] = Append(@, "progress_fault")]
    /\ txn' = [txn EXCEPT ![j] = @ \cup {<<j, index[j] + 1>>}]
    /\ rollback' = [rollback EXCEPT ![j] = TRUE]
    /\ retval' = [retval EXCEPT ![j] = Failed(ProgressError)]
    /\ pc' = [pc EXCEPT ![j] = "exit"]
    /\ UNCHANGED <<issued, items, index, db, store, writes, pollId, lastPoll, prevPoll,
                   polledAt, prevAt, view, lastSubmit, route>>

NextFaults ==
    \/ Next
    \/ \E j \in TaskIds : IterateProgressFault(j)

\* The system with faults of the result backend during processing as well.
SpecFaults == Init /\ [][NextFaults]_vars

(***************************************************************************)
(* URL dispatch: food_order_api/urls.py.                                   *)
(***************************************************************************)

\* A request path is its sequence of segments (every path ends in "/").
Segments == {"orders", "bulk_create", "check_progress", "verify-otp", "users", "id1"}

RECURSIVE PathsOfLength(_)
PathsOfLength(n) ==
    IF n = 0 THEN {<<>>}
    ELSE {Append(p, seg) : p \in PathsOfLength(n - 1), seg \in Segments}

Paths == UNION {PathsOfLength(n) : n \in 1..MaxSegments}
HttpMethods == {"GET", "POST"}

\* urlpatterns, in order; "<str>" is a <str:...> converter, which matches
\* any one segment.
urlpatterns ==
    << [pattern |-> <<"users", "login">>, view |-> "TokenObtainPairView"],
       [pattern |-> <<"users", "refresh">>, view |-> "TokenRefreshView"],
       [pattern |-> <<"user">>, view |-> "UserCreateView"],
       [pattern |-> <<"users">>, view |-> "UserListView"],
       [pattern |-> <<"users", "<str>">>, view |-> "UserDetailView"],
       [pattern |-> <<"products">>, view |-> "ProductAPIView"],
       [pattern |-> <<"products", "<str>">>, view |-> "ProductAPIView"],
       [pattern |-> <<"orders">>, view |-> "OrderListCreateView"],
       [pattern |-> <<"orders", "<str>">>, view |-> "OrderItemDetailView"],
       [pattern |-> <<"orders", "<str>", "verify-otp">>, view |-> "OTPVerifyView"],
       [pattern |-> <<"orders", "bulk_create">>, view |-> "ProductBulkCreateView"],
       [pattern |-> <<"orders", "check_progress", "<str>">>,
        view |-> "CheckProgressView"] >>

Matches(pattern, path) ==
    /\ Len(pattern) = Len(path)
    /\ \A i \in 1..Len(path) : pattern[i] = "<str>" \/ pattern[i] = path[i]

\* Django takes the first pattern that matches.
Resolve(path) ==
    LET hits == {i \in 1..Len(urlpatterns) : Matches(urlpatterns[i].pattern, path)}
    IN IF hits = {} THEN "404"
       ELSE urlpatterns[CHOOSE i \in hits : \A h \in hits : i <= h].view

\* The handlers the generic base class of each view defines.
Handlers(v) ==
    IF v \in {"TokenObtainPairView", "TokenRefreshView", "UserCreateView",
              "OTPVerifyView", "ProductBulkCreateView"} THEN {"POST"}
    ELSE IF v \in {"UserListView", "CheckProgressView"} THEN {"GET"}
    ELSE IF v \in {"OrderListCreateView", "ProductAPIView"} THEN {"GET", "POST"}
    ELSE IF v \in {"UserDetailView", "OrderItemDetailView"}
    THEN {"GET", "PUT", "PATCH", "DELETE"}
    ELSE {}

\* One request: the view it is dispatched to, and whether that view has a
\* handler for the method (405 Method Not Allowed when not).
Dispatch(path, method) ==
    /\ route' = [kind |-> "request", path |-> path, method |-> method,
                 view |-> Resolve(path),
                 handled |-> method \in Handlers(Resolve(path))]
    /\ UNCHANGED <<issued, items, answers, pc, index, rollback, retval, txn, db, store,
                   writes, pollId, lastPoll, prevPoll, polledAt, prevAt, view, lastSubmit>>

NextRoute == \E path \in Paths, method \in HttpMethods : Dispatch(path, method)

SpecRoute == Init /\ [][NextRoute]_vars

(***************************************************************************)
(* Vocabulary of the properties.                                           *)
(***************************************************************************)

\* Rows of task j's batch in the committed store, and the whole batch.
Persisted(j) == {r \in db : r[1] = j}
Batch(j) == {<<j, i>> : i \in 1..items[j]}

\* 1-based index of the item that stopped task j, 0 when none did.
FirstFailure(j) ==
    IF answers[j] # <<>> /\ answers[j][Len(answers[j])] # "valid"
    THEN Len(answers[j]) ELSE 0

\* Every item of task j was answered valid.
AllValid(j) ==
    /\ pc[j] \notin {"unissued", "queued"}
    /\ Len(answers[j]) = items[j]
    /\ \A i \in 1..Len(answers[j]) : answers[j][i] = "valid"

\* A progress snapshot as the polling endpoint reads a stored meta: completed
\* is a ready state, the error is the result of a FAILURE.
NoError == [text |-> "None", item |-> 0, detail |-> "None"]
SnapCompleted(meta) == meta.state \in {"SUCCESS", "FAILURE"}
SnapError(meta) ==
    IF meta.state = "FAILURE" /\ Len(meta.result.result) = 2
    THEN meta.result.result[2] ELSE NoError

\* The PROGRESS metas written for task j, and the last items_completed written.
ProgressWrites(j) == SelectSeq(writes[j], LAMBDA m : m.state = "PROGRESS")
ItemsCompleted(j) ==
    IF ProgressWrites(j) = <<>> THEN 0
    ELSE ProgressWrites(j)[Len(ProgressWrites(j))].current

SucceededOutcome ==
    [kind |-> "success", percent |-> 10000, description |-> "Task completed",
     completed |-> TRUE, status |-> 200]
UnknownOutcome ==
    [kind |-> "unknown", error |-> "Unknown task state", completed |-> TRUE,
     status |-> 500]
HasPercent(response) == "percent" \in DOMAIN response

\* The polling client's last two responses for task id, and where the task
\* stood at the last one.
LastPoll(id) == IF pollId = id THEN lastPoll ELSE NoCall
PrevPoll(id) == IF pollId = id THEN prevPoll ELSE NoCall
PolledAt(id) == IF pollId = id THEN polledAt ELSE "never"
PrevAt(id) == IF pollId = id THEN prevAt ELSE "never"

(***************************************************************************)
(* C1: for a task in which some item failed validation or faulted, every   *)
(* poll answered after the task reached its terminal state reports the     *)
(* failed outcome (an error, completed, HTTP 500), never the succeeded one.*)
(* The task returns normally from its except branch, so this is violated.  *)
(***************************************************************************)
C1_FailedJobPollsFailure ==
    \A j \in TaskIds :
        (PolledAt(j) = "done" /\ FirstFailure(j) > 0)
            => /\ LastPoll(j).kind = "failure"
               /\ LastPoll(j).status = 500
               /\ LastPoll(j) # SucceededOutcome

(***************************************************************************)
(* C2: all-or-nothing.  Once bulk_create_task has left its transaction,    *)
(* the committed rows of its batch are the whole batch when it returned    *)
(* "completed" and none otherwise; at no time is a non-empty proper subset *)
(* of a batch committed.                                                   *)
(***************************************************************************)
C2_AllOrNothing ==
    \A j \in TaskIds :
        /\ Persisted(j) \in {{}, Batch(j)}
        /\ pc[j] \in {"store", "done"}
             => Persisted(j) = (IF retval[j] = Completed THEN Batch(j) ELSE {})

C2_Witness ==
    \E j \in TaskIds :
        /\ pc[j] = "done"
        /\ FirstFailure(j) >= 2
        /\ Persisted(j) = {}

(***************************************************************************)
(* C3: an empty batch is rejected before anything is enqueued: no task     *)
(* with zero items is ever queued and no task id is returned for one.      *)
(* create() calls delay(request.data) unconditionally, so this is violated.*)
(***************************************************************************)
C3_EmptyBatchRejected ==
    /\ \A j \in TaskIds : pc[j] # "unissued" => items[j] > 0
    /\ lastSubmit.kind = "task" => lastSubmit.data > 0

(***************************************************************************)
(* C4: when item k is the first to fail validation, the final snapshot of  *)
(* the task is completed, carries the error naming k and the validation    *)
(* detail, and items_completed stayed at k - 1.  The final record is a     *)
(* SUCCESS whose result holds the message, so no error is recorded.        *)
(***************************************************************************)
C4_FailureSnapshot ==
    \A j \in TaskIds :
        (pc[j] = "done" /\ FirstFailure(j) > 0
            /\ answers[j][Len(answers[j])] = "invalid")
            => /\ SnapCompleted(store[j])
               /\ SnapError(store[j]) = ValidationError(FirstFailure(j))
               /\ ItemsCompleted(j) = FirstFailure(j) - 1

(***************************************************************************)
(* C5: when all items are valid the task commits its transaction before    *)
(* the final record is written; the final record is completed, without     *)
(* error, follows a last progress write of items_completed = items_total,  *)
(* and every poll answered after it is the succeeded outcome.              *)
(***************************************************************************)
C5_SuccessSnapshot ==
    \A j \in TaskIds :
        AllValid(j) =>
            /\ SnapCompleted(store[j]) => Persisted(j) = Batch(j)
            /\ pc[j] = "done" =>
                 /\ store[j] = [state |-> "SUCCESS", result |-> Completed]
                 /\ SnapError(store[j]) = NoError
                 /\ ItemsCompleted(j) = items[j]
                 /\ index[j] = items[j]
            /\ PolledAt(j) = "done" => LastPoll(j) = SucceededOutcome

C5_Witness ==
    \E j \in TaskIds :
        /\ AllValid(j)
        /\ items[j] >= 2
        /\ PolledAt(j) = "done"
        /\ Persisted(j) = Batch(j)

(***************************************************************************)
(* C6: a poll of an identifier that was never submitted answers the        *)
(* unknown outcome, which differs from every in-progress, succeeded and    *)
(* failed response.                                                        *)
(***************************************************************************)
C6_UnknownJob ==
    /\ \A id \in TaskIds :
           (pc[id] = "unissued" /\ LastPoll(id) # NoCall) => LastPoll(id) = UnknownOutcome
    /\ \A id \in TaskIds :
           store[id].state \in {"PROGRESS", "SUCCESS", "FAILURE"}
               => get(store[id]) # UnknownOutcome
    /\ \A id \in TaskIds : LastPoll(id) = UnknownOutcome => PolledAt(id) # "done"

C6_Witness ==
    /\ pc[MaxJobs + 1] = "unissued"
    /\ LastPoll(MaxJobs + 1) = UnknownOutcome
    /\ issued = MaxJobs

(***************************************************************************)
(* C7: items are processed in submission order, and the progress writes of *)
(* a task are exactly one per validated and persisted item i, in order,    *)
(* with items_completed = i, items_total = N, not completed, description   *)
(* "Creating item i/N"; a failed item writes none; completed <= total.     *)
(***************************************************************************)
C7_ProgressWrites ==
    \A j \in TaskIds :
        LET P == ProgressWrites(j)
            valid == {i \in 1..Len(answers[j]) : answers[j][i] = "valid"}
        IN /\ Len(P) = Cardinality(valid)
           /\ valid = 1..index[j]
           /\ pc[j] \in {"loop", "exit"} => txn[j] = {<<j, i>> : i \in 1..index[j]}
           /\ \A i \in 1..Len(P) :
                 /\ P[i] = writes[j][i]
                 /\ P[i].current = i
                 /\ P[i].total = items[j]
                 /\ P[i].current <= P[i].total
                 /\ ~SnapCompleted(P[i])
                 /\ P[i].description = <<"Creating item", i, items[j]>>

C7_Witness ==
    \E j \in TaskIds :
        /\ pc[j] = "done"
        /\ FirstFailure(j) = 3
        /\ Len(ProgressWrites(j)) = 2

(***************************************************************************)
(* C8: of two successive polls of one identifier that both report a        *)
(* percent, the later percent is at least the earlier one.                 *)
(***************************************************************************)
C8_PercentMonotone ==
    \A id \in TaskIds :
        (HasPercent(PrevPoll(id)) /\ HasPercent(LastPoll(id)))
            => PrevPoll(id).percent <= LastPoll(id).percent

C8_Witness ==
    \E id \in TaskIds :
        /\ PrevPoll(id).kind = "progress"
        /\ LastPoll(id).kind = "progress"
        /\ PrevPoll(id).percent < LastPoll(id).percent

(***************************************************************************)
(* C9 as stated: an in-progress poll reports items_completed / items_total *)
(* * 100, and for a task of 3 valid items the percents a poller observes   *)
(* are 33, 66 and 100.  (Percents are in hundredths here.)                 *)
(***************************************************************************)
C9_PercentsAsStated ==
    \A id \in TaskIds :
        (items[id] = 3 /\ HasPercent(LastPoll(id)))
            => LastPoll(id).percent \in {3300, 6600, 10000}

(***************************************************************************)
(* C9 amended: an in-progress poll is not completed and reports            *)
(* items_completed / items_total * 100 rounded to two decimals; for a task *)
(* of 3 valid items the percents observed are 33.33, 66.67 and 100, in     *)
(* non-decreasing order, and the read after the end is completed without   *)
(* error.                                                                  *)
(***************************************************************************)
C9_PercentRounded ==
    \A id \in TaskIds :
        /\ LastPoll(id).kind = "progress" =>
             /\ LastPoll(id).completed = FALSE
             /\ \E i \in 1..items[id] :
                    LET d == LastPoll(id).percent * items[id] - i * 10000
                    IN /\ i <= index[id]
                       /\ 2 * d <= items[id] /\ 2 * (0 - d) <= items[id]
        /\ (items[id] = 3 /\ HasPercent(LastPoll(id))) =>
             /\ LastPoll(id).percent \in {3333, 6667, 10000}
             /\ HasPercent(PrevPoll(id)) => PrevPoll(id).percent <= LastPoll(id).percent
        /\ (items[id] = 3 /\ AllValid(id) /\ PolledAt(id) = "done") =>
             /\ LastPoll(id).completed = TRUE
             /\ LastPoll(id).kind = "success"

C9_Witness ==
    \E id \in TaskIds :
        /\ items[id] = 3 /\ AllValid(id) /\ PolledAt(id) = "done"
        /\ PrevPoll(id).kind = "progress" /\ PrevPoll(id).percent = 6667
        /\ LastPoll(id).kind = "success"

(***************************************************************************)
(* C10: the completed write is the last write for a task id: no write      *)
(* follows it, it is the record the store holds from then on, and          *)
(* items_completed <= items_total when it is written.                      *)
(***************************************************************************)
C10_TerminalWriteLast ==
    \A j \in TaskIds :
        /\ \A i \in 1..Len(writes[j]) :
               SnapCompleted(writes[j][i]) => i = Len(writes[j])
        /\ SnapCompleted(store[j]) =>
               /\ pc[j] = "done"
               /\ store[j] = writes[j][Len(writes[j])]
               /\ ItemsCompleted(j) <= items[j]
        /\ pc[j] = "done" => SnapCompleted(store[j])

C10_Witness ==
    \E j \in TaskIds :
        /\ pc[j] = "done"
        /\ Len(writes[j]) = items[j] + 1
        /\ items[j] >= 2
        /\ PolledAt(j) = "done"

(***************************************************************************)
(* C11: an unexpected fault while persisting an item or writing a progress *)
(* snapshot is handled as a validation failure is: the transaction is      *)
(* rolled back, no later item is processed, and a terminal snapshot with   *)
(* an error describing the fault is written.  The rollback and the abort   *)
(* hold; the terminal record is a SUCCESS, so it carries no error.         *)
(***************************************************************************)
C11_FaultHandledAsFailure ==
    \A j \in TaskIds :
        (pc[j] = "done" /\ FirstFailure(j) > 0
            /\ answers[j][Len(answers[j])] \in {"fault", "progress_fault"})
            => /\ Persisted(j) = {}
               /\ \A i \in 1..(Len(answers[j]) - 1) : answers[j][i] = "valid"
               /\ SnapCompleted(store[j])
               /\ SnapError(store[j]) # NoError

(***************************************************************************)
(* C12: the submission call answers {"task_id": id} with a fresh id as     *)
(* soon as the task is queued, before any item is processed, and no step   *)
(* of the background processing changes that response.                     *)
(***************************************************************************)
C12_SubmitReturnsAtOnce ==
    [][/\ issued' # issued =>
            LET id == issued'
            IN /\ lastSubmit' = [kind |-> "task", data |-> items'[id],
                                 task_id |-> id, status |-> 200]
               /\ id \notin 1..issued
               /\ pc[id] = "unissued"
               /\ pc'[id] = "queued"
               /\ answers'[id] = <<>> /\ index'[id] = 0 /\ txn'[id] = {}
               /\ store'[id] = PendingMeta /\ writes'[id] = <<>>
               /\ db' = db
       /\ (issued' = issued /\ pc' # pc) => lastSubmit' = lastSubmit]_vars

C12_Witness ==
    \E j \in TaskIds :
        /\ pc[j] = "done"
        /\ FirstFailure(j) > 0
        /\ lastSubmit = [kind |-> "task", data |-> items[j], task_id |-> j,
                         status |-> 200]

(***************************************************************************)
(* C13: under weak fairness of the worker every task that was queued ends   *)
(* in its terminal state, whatever its items answer: from some point on     *)
(* every task id is unissued or done.  And no step moves a task anywhere    *)
(* but forward along queued, loop, exit, store, done, so a queued task is   *)
(* never unissued again and no client action aborts it.                     *)
(***************************************************************************)
C13_RunsToTerminal ==
    /\ <>[](\A j \in TaskIds : pc[j] \in {"unissued", "done"})
    /\ [][\A j \in TaskIds :
             pc'[j] # pc[j] =>
                 <<pc[j], pc'[j]>> \in {<<"unissued", "queued">>, <<"queued", "loop">>,
                                       <<"loop", "exit">>, <<"exit", "store">>,
                                       <<"store", "done">>}]_vars

C13_Witness ==
    \E j \in TaskIds :
        /\ pc[j] = "done"
        /\ items[j] >= 2
        /\ pollId = j

(***************************************************************************)
(* C14: a POST to orders/bulk_create/ is dispatched to                     *)
(* ProductBulkCreateView, which handles it; no earlier pattern of          *)
(* urlpatterns captures the path.  orders/<str:pk>/ stands before it and   *)
(* matches with pk = "bulk_create", so this is violated.                   *)
(***************************************************************************)
C14_BulkCreateRouted ==
    (route.kind = "request" /\ route.path = <<"orders", "bulk_create">>
        /\ route.method = "POST")
        => /\ route.view = "ProductBulkCreateView"
           /\ route.handled

(***************************************************************************)
(* C15: the worker aborts on the first item that fails validation: no item *)
(* after it is validated or persisted, and no progress snapshot is written *)
(* for it or for a later item.                                             *)
(***************************************************************************)
C15_AbortOnFirstFailure ==
    \A j \in TaskIds :
        /\ \A i \in 1..Len(answers[j]) :
               answers[j][i] # "valid" => i = Len(answers[j])
        /\ FirstFailure(j) > 0 =>
               /\ pc[j] \in {"exit", "store", "done"}
               /\ (txn[j] \cup Persisted(j)) \subseteq
                      {<<j, i>> : i \in 1..(FirstFailure(j) - 1)}
               /\ Len(ProgressWrites(j)) = FirstFailure(j) - 1
               /\ \A i \in 1..Len(ProgressWrites(j)) :
                      ProgressWrites(j)[i].current < FirstFailure(j)

C15_Witness ==
    \E j \in TaskIds :
        /\ pc[j] = "done"
        /\ items[j] = 3
        /\ FirstFailure(j) = 2
        /\ answers[j][2] = "invalid"

(***************************************************************************)
(* C16: a poll makes one atomic read: it never faults, and the percent and *)
(* the description of an in-progress response come from one snapshot that  *)
(* the worker wrote.  The view reads the backend anew for result.state and *)
(* for each result.info, so a write between two reads breaks this.         *)
(***************************************************************************)
C16_PollAtomicRead ==
    /\ lastPoll.kind # "fault"
    /\ lastPoll.kind = "progress" =>
           \E i \in 1..Len(writes[pollId]) :
               /\ writes[pollId][i].state = "PROGRESS"
               /\ writes[pollId][i].percent = lastPoll.percent
               /\ writes[pollId][i].description = lastPoll.description

(***************************************************************************)
(* C17: whenever a poll reports the succeeded outcome for a task, every    *)
(* item of its batch is in the committed store, and the task's transaction *)
(* was not rolled back.  A failed task is recorded as SUCCESS, so this is  *)
(* violated.                                                               *)
(***************************************************************************)
C17_SucceededMeansPersisted ==
    \A j \in TaskIds :
        LastPoll(j) = SucceededOutcome
            => /\ Persisted(j) = Batch(j)
               /\ ~rollback[j]

(***************************************************************************)
(* C18 as stated: once a poll of a submitted task's id returned            *)
(* completed=true, the next poll of that id returns completed=true too.    *)
(***************************************************************************)
C18_CompletedStable ==
    \A id \in TaskIds :
        (PrevAt(id) \in {"before", "done"} /\ PrevPoll(id).kind # "fault"
            /\ PrevPoll(id).completed /\ LastPoll(id).kind \notin {"none", "fault"})
            => LastPoll(id).completed

(***************************************************************************)
(* C18 amended: once a poll of a task's id returned the succeeded or the   *)
(* failed outcome, every later poll of that id returns the same outcome,   *)
(* with completed=true.  The unknown outcome, which a queued task gets and *)
(* which also carries completed=true, can be followed by an in-progress    *)
(* response with completed=false.                                          *)
(***************************************************************************)
C18_TerminalOutcomeStable ==
    \A id \in TaskIds :
        PrevPoll(id).kind \in {"success", "failure"}
            => /\ LastPoll(id) = PrevPoll(id)
               /\ LastPoll(id).completed

C18_Witness ==
    \E id \in TaskIds :
        /\ PrevPoll(id).kind = "success"
        /\ LastPoll(id).kind = "success"
        /\ items[id] >= 1

====
